---- MODULE Spec2Model ----
(***************************************************************************)
(* enum_unwrapper: the attribute macro unique_try_froms (src/lib.rs).      *)
(*                                                                         *)
(* The macro receives an attribute-argument fragment and the annotated     *)
(* item, parses the item as an enum, and emits the item followed by one    *)
(* `impl TryFrom<Enum> for Inner` per variant.  The model follows the      *)
(* expansion statement by statement (parse, quote of the declaration, one  *)
(* step per repetition of the quoted impl, return), then the host          *)
(* compiler's check of the emitted code, then the emitted try_from at run  *)
(* time.  A panic in the macro unwinds: nothing is returned.               *)
(*                                                                         *)
(* Types and identifiers are atoms: two inner types are the same type iff  *)
(* they are the same atom.  Variant identifiers of one enum are distinct.  *)
(***************************************************************************)
EXTENDS Integers, Sequences, FiniteSets, TLC

\* ----------------------------------------------------------------- bounds
MaxVariants == 2
MaxFields == 2

\* ----------------------------------------------------------------- inputs
Types == {"u8", "u16"}
EnumName == "NumberHolder"
Idents == <<"U8", "U16", "V3", "V4">>
ExemptArgs == {{}, {"u8"}}
Runs == {1, 2}

ValuesOf(ty) == IF ty = "u8" THEN {4, 255} ELSE {4, 444}

SeqsUpTo(S, n) == UNION {[1..m -> S] : m \in 0..n}

\* syn::Fields: Unit, Named {..}, Unnamed (..); the macro never reads the
\* contents of a Named field list, so only Unnamed carries its types.
FieldShapes ==
    {[style |-> "Unit", unnamed |-> <<>>], [style |-> "Named", unnamed |-> <<>>]}
    \cup {[style |-> "Unnamed", unnamed |-> ts] : ts \in SeqsUpTo(Types, MaxFields)}

EnumItems ==
    {[kind |-> "enum", ident |-> EnumName,
      variants |-> [j \in 1..Len(fs) |-> [ident |-> Idents[j], fields |-> fs[j]]]]
        : fs \in SeqsUpTo(FieldShapes, MaxVariants)}

\* An item that is not an enum definition (a struct: no variants).
OtherItems == {[kind |-> "struct", ident |-> EnumName, variants |-> <<>>]}

Items == EnumItems \cup OtherItems

\* ------------------------------------------------------------ diagnostics
ShapeMsg == "This attribute should only be attached to a enum definition"
FirstMsg == "Each enum variant should contain one inner value"
UnnamedMsg == "An unexpected error occoured, please only use unnamed enum variants"
ErrMsg == "Only variants containing an inner value of the same type as the target should be passed to this function"
NoMsg == ""

\* ------------------------------------------------------------- the macro
VARIABLES user_enum, exempt_types, pc, next_variant, tokens, output, diag,
          build, value, result

vars == <<user_enum, exempt_types, pc, next_variant, tokens, output, diag,
          build, value, result>>

\* syn::parse::<ItemEnum>(user_enum) succeeds
ParseItemEnum_AcceptsAnyItem(item) == TRUE
ParseItemEnum(item) == item.kind = "enum"

ident_extractor(variant) == variant.ident

Extracted(t) == [panicked |-> FALSE, msg |-> NoMsg, ty |-> t]
Panicked(m) == [panicked |-> TRUE, msg |-> m, ty |-> ""]

inner_type_extractor_DefaultOnEmpty(variant) ==
    IF variant.fields.style = "Unnamed"
    THEN IF Len(variant.fields.unnamed) = 0
         THEN Extracted("()")
         ELSE Extracted(Head(variant.fields.unnamed))
    ELSE Panicked(UnnamedMsg)
inner_type_extractor_OneMessage(variant) ==
    IF variant.fields.style = "Unnamed"
    THEN IF Len(variant.fields.unnamed) = 0
         THEN Panicked(UnnamedMsg)
         ELSE Extracted(Head(variant.fields.unnamed))
    ELSE Panicked(UnnamedMsg)
inner_type_extractor(variant) ==
    IF variant.fields.style = "Unnamed"
    THEN IF Len(variant.fields.unnamed) = 0
         THEN Panicked(FirstMsg)
         ELSE Extracted(Head(variant.fields.unnamed))
    ELSE Panicked(UnnamedMsg)

\* the variants both lazy iterators (enum_variants, variant_types) range over
RepetitionVariants_SkipExempt(exempt, parsed_enum) ==
    SelectSeq(parsed_enum.variants,
              LAMBDA v : ~(v.fields.style = "Unnamed" /\ Len(v.fields.unnamed) > 0
                           /\ Head(v.fields.unnamed) \in exempt))
RepetitionVariants(exempt, parsed_enum) == parsed_enum.variants

\* #parsed_enum
DeclTokens(parsed_enum) == [kind |-> "decl", item |-> parsed_enum]

\* impl TryFrom<#enum_name> for #variant_types { .. #enum_name::#enum_variants(inner) .. }
TryFromImpl_FirstVariantTag(enum_name, variant_type, enum_variant) ==
    [kind |-> "impl", source |-> enum_name, target |-> variant_type,
     tag |-> Idents[1]]
TryFromImpl(enum_name, variant_type, enum_variant) ==
    [kind |-> "impl", source |-> enum_name, target |-> variant_type,
     tag |-> enum_variant]

\* One repetition of #( .. )*: variant_types.next(), enum_variants.next(),
\* then the impl is appended to the token buffer.
RepetitionBody_RejectDuplicate(toks, enum_name, variant) ==
    LET ex == inner_type_extractor(variant) IN
    IF ex.panicked THEN [panicked |-> TRUE, msg |-> ex.msg, toks |-> <<>>]
    ELSE IF \E j \in 1..Len(toks) : toks[j].kind = "impl" /\ toks[j].target = ex.ty
    THEN [panicked |-> TRUE, msg |-> FirstMsg, toks |-> <<>>]
    ELSE [panicked |-> FALSE, msg |-> NoMsg,
          toks |-> Append(toks, TryFromImpl(enum_name, ex.ty, ident_extractor(variant)))]
RepetitionBody(toks, enum_name, variant) ==
    LET ex == inner_type_extractor(variant) IN
    IF ex.panicked THEN [panicked |-> TRUE, msg |-> ex.msg, toks |-> <<>>]
    ELSE [panicked |-> FALSE, msg |-> NoMsg,
          toks |-> Append(toks, TryFromImpl(enum_name, ex.ty, ident_extractor(variant)))]

\* The emitted fn try_from(value): match value { Enum::Tag(inner) => Ok, _ => Err }
Ok(x) == [ok |-> TRUE, inner |-> x, err |-> NoMsg]
Err(m) == [ok |-> FALSE, inner |-> 0, err |-> m]
try_from_AlwaysOk(impl, v) == Ok(v.inner)
try_from_ArmsSwapped(impl, v) ==
    IF v.tag = impl.tag THEN Err(ErrMsg) ELSE Ok(v.inner)
try_from(impl, v) ==
    IF v.tag = impl.tag THEN Ok(v.inner) ELSE Err(ErrMsg)

\* The emitted items are accepted by the host compiler: every pattern
\* Enum::Tag(inner) binds a variant with exactly one positional field, and no
\* two impls have the same (source, target) signature.
Impls(out) == SelectSeq(out, LAMBDA t : t.kind = "impl")
HostAccepts(out) ==
    LET impls == Impls(out)
        decl == out[1].item
    IN  /\ \A j \in 1..Len(impls) :
              \E w \in 1..Len(decl.variants) :
                  /\ decl.variants[w].ident = impls[j].tag
                  /\ decl.variants[w].fields.style = "Unnamed"
                  /\ Len(decl.variants[w].fields.unnamed) = 1
                  /\ decl.variants[w].fields.unnamed[1] = impls[j].target
        /\ \A j, l \in 1..Len(impls) :
              (impls[j].source = impls[l].source /\ impls[j].target = impls[l].target)
                  => j = l

\* ---------------------------------------------------------------- actions
InitCommon ==
    /\ user_enum \in Items
    /\ exempt_types \in [Runs -> ExemptArgs]
    /\ next_variant = [k \in Runs |-> 1]
    /\ tokens = [k \in Runs |-> <<>>]
    /\ output = [k \in Runs |-> <<>>]
    /\ diag = [k \in Runs |-> NoMsg]
    /\ build = "pending"
    /\ value = <<>>
    /\ result = <<>>

\* one expansion of the annotated item, then the build and the program's run
Init ==
    /\ InitCommon
    /\ exempt_types[2] = exempt_types[1]
    /\ pc = [k \in Runs |-> IF k = 1 THEN "start" ELSE "idle"]

\* the same item expanded twice, each time with its own attribute arguments
InitTwice ==
    /\ InitCommon
    /\ pc = [k \in Runs |-> "start"]

Abort(k, m) ==
    /\ pc' = [pc EXCEPT ![k] = "aborted"]
    /\ diag' = [diag EXCEPT ![k] = m]
    /\ tokens' = [tokens EXCEPT ![k] = <<>>]

\* lines 65-77: parse; the closures and the lazy iterators are only built
Parse(k) ==
    /\ pc[k] = "start"
    /\ IF ParseItemEnum(user_enum)
       THEN /\ pc' = [pc EXCEPT ![k] = "parsed"]
            /\ UNCHANGED <<diag, tokens>>
       ELSE Abort(k, ShapeMsg)
    /\ UNCHANGED <<user_enum, exempt_types, next_variant, output, build, value, result>>

\* line 79: #parsed_enum goes to the token buffer
QuoteDecl(k) ==
    /\ pc[k] = "parsed"
    /\ tokens' = [tokens EXCEPT ![k] = <<DeclTokens(user_enum)>>]
    /\ pc' = [pc EXCEPT ![k] = "repeating"]
    /\ UNCHANGED <<user_enum, exempt_types, next_variant, output, diag, build, value, result>>

\* lines 80-88: one repetition, for the next variant
Repeat(k) ==
    /\ pc[k] = "repeating"
    /\ LET vs == RepetitionVariants(exempt_types[k], user_enum) IN
       /\ next_variant[k] <= Len(vs)
       /\ LET r == RepetitionBody(tokens[k], user_enum.ident, vs[next_variant[k]]) IN
          IF r.panicked
          THEN Abort(k, r.msg)
          ELSE /\ tokens' = [tokens EXCEPT ![k] = r.toks]
               /\ pc' = pc
               /\ diag' = diag
    /\ next_variant' = [next_variant EXCEPT ![k] = @ + 1]
    /\ UNCHANGED <<user_enum, exempt_types, output, build, value, result>>

\* line 89: the iterators are exhausted; the buffer is returned
Return(k) ==
    /\ pc[k] = "repeating"
    /\ next_variant[k] > Len(RepetitionVariants(exempt_types[k], user_enum))
    /\ output' = [output EXCEPT ![k] = tokens[k]]
    /\ pc' = [pc EXCEPT ![k] = "emitted"]
    /\ UNCHANGED <<user_enum, exempt_types, next_variant, tokens, diag, build, value, result>>

Expand(k) == Parse(k) \/ QuoteDecl(k) \/ Repeat(k) \/ Return(k)

\* the host compiler splices the output in and type-checks it
HostCompile ==
    /\ pc[1] = "emitted"
    /\ build = "pending"
    /\ build' = IF HostAccepts(output[1]) THEN "ok" ELSE "rejected"
    /\ UNCHANGED <<user_enum, exempt_types, pc, next_variant, tokens, output, diag, value, result>>

\* let v = Enum::Tag(payload)
Construct ==
    /\ build = "ok"
    /\ value = <<>>
    /\ \E w \in 1..Len(user_enum.variants) :
          \E p \in ValuesOf(user_enum.variants[w].fields.unnamed[1]) :
              value' = <<[tag |-> user_enum.variants[w].ident, inner |-> p]>>
    /\ UNCHANGED <<user_enum, exempt_types, pc, next_variant, tokens, output, diag, build, result>>

\* Target::try_from(v): the impl whose Self is Target
Convert ==
    /\ build = "ok"
    /\ value # <<>>
    /\ result = <<>>
    /\ LET impls == Impls(output[1]) IN
       \E j \in 1..Len(impls) :
          result' = <<[target |-> impls[j].target, res |-> try_from(impls[j], value[1])]>>
    /\ UNCHANGED <<user_enum, exempt_types, pc, next_variant, tokens, output, diag, build, value>>

Next == (\E k \in Runs : Expand(k)) \/ HostCompile \/ Construct \/ Convert

Spec == Init /\ [][Next]_vars

NextTwice == \E k \in Runs : Expand(k)

SpecTwice == InitTwice /\ [][NextTwice]_vars

\* ----------------------------------------------------------------- claims
Terminal(k) == pc[k] \in {"emitted", "aborted"}
IsEnum == user_enum.kind = "enum"
Variants == user_enum.variants
VariantIdx == 1..Len(Variants)

SingleUnnamed(v) == v.fields.style = "Unnamed" /\ Len(v.fields.unnamed) = 1
MultiUnnamed(v) == v.fields.style = "Unnamed" /\ Len(v.fields.unnamed) >= 2
EmptyUnnamed(v) == v.fields.style = "Unnamed" /\ Len(v.fields.unnamed) = 0
ZeroFields(v) == v.fields.style = "Unit" \/ EmptyUnnamed(v)
NotUnnamed(v) == v.fields.style \in {"Unit", "Named"}
Malformed(v) == ~SingleUnnamed(v)

\* C1: round trip. In a built program, converting a value constructed via
\* variant V(T) with payload v to T returns success carrying exactly v.
C1_RoundTrip ==
    result # <<>> =>
        \A w \in VariantIdx :
            (/\ Variants[w].ident = value[1].tag
             /\ Variants[w].fields.unnamed[1] = result[1].target)
            => (result[1].res.ok /\ result[1].res.inner = value[1].inner)

C1_Witness ==
    /\ result # <<>>
    /\ Len(Variants) = 2
    /\ value[1] = [tag |-> "U16", inner |-> 444]
    /\ result[1].target = "u16"
    /\ result[1].res = Ok(444)

\* C2: negative property. Converting a value constructed via V1(T1) to the
\* inner type T2 # T1 of another variant V2 returns the failure value with
\* the fixed message, never a success.
C2_Negative ==
    result # <<>> =>
        \A w1, w2 \in VariantIdx :
            (/\ w1 # w2
             /\ Variants[w1].fields.unnamed[1] # Variants[w2].fields.unnamed[1]
             /\ Variants[w1].ident = value[1].tag
             /\ Variants[w2].fields.unnamed[1] = result[1].target)
            => result[1].res = Err(ErrMsg)

C2_Witness ==
    /\ result # <<>>
    /\ value[1] = [tag |-> "U8", inner |-> 4]
    /\ result[1].target = "u16"
    /\ result[1].res = Err(ErrMsg)

\* C3: arity rejection, two or more fields. An enum with a variant of two or
\* more unnamed fields makes the macro abort and return nothing.
C3_MultiFieldAborts ==
    \A k \in Runs :
        (Terminal(k) /\ IsEnum /\ \E w \in VariantIdx : MultiUnnamed(Variants[w]))
        => (pc[k] = "aborted" /\ output[k] = <<>>)

\* C4: arity rejection, zero fields. An enum with a unit variant or an empty
\* positional list, at any position, makes the macro abort and return nothing.
C4_ZeroFieldAborts ==
    \A k \in Runs :
        (Terminal(k) /\ IsEnum /\ \E w \in VariantIdx : ZeroFields(Variants[w]))
        => (pc[k] = "aborted" /\ output[k] = <<>> /\ diag[k] # NoMsg)

C4_Witness ==
    /\ pc[1] = "aborted"
    /\ Len(Variants) = 2
    /\ SingleUnnamed(Variants[1])
    /\ EmptyUnnamed(Variants[2])
    /\ next_variant[1] = 3

\* C5: shape rejection. An item that is not an enum aborts at the parse with
\* the shape diagnostic, before any variant is inspected, with no output.
C5_ShapeRejection ==
    \A k \in Runs :
        (~IsEnum /\ pc[k] \notin {"start", "idle"})
        => (/\ pc[k] = "aborted"
            /\ diag[k] = ShapeMsg
            /\ next_variant[k] = 1
            /\ tokens[k] = <<>>
            /\ output[k] = <<>>)

C5_Witness == ~IsEnum /\ pc[1] = "aborted" /\ diag[1] = ShapeMsg

\* C6: emission. The output of an accepted enum with n variants is the
\* declaration unchanged followed by exactly n impls, the i-th with source the
\* enum's name, target the i-th variant's inner type and tag the i-th
\* variant's identifier.
C6_Emission ==
    \A k \in Runs :
        pc[k] = "emitted" =>
            /\ Len(output[k]) = Len(Variants) + 1
            /\ output[k][1] = [kind |-> "decl", item |-> user_enum]
            /\ \A w \in VariantIdx :
                  output[k][w + 1] =
                      [kind |-> "impl", source |-> user_enum.ident,
                       target |-> Variants[w].fields.unnamed[1],
                       tag |-> Variants[w].ident]

C6_Witness ==
    /\ pc[1] = "emitted"
    /\ Len(Variants) = 2
    /\ output[1][2].tag = "U8" /\ output[1][2].target = "u16"
    /\ output[1][3].tag = "U16" /\ output[1][3].target = "u8"

C8_ArgumentIndependence ==
    (Terminal(1) /\ Terminal(2))
    => (pc[1] = pc[2] /\ output[1] = output[2] /\ diag[1] = diag[2])

C8_Witness ==
    /\ pc[1] = "emitted" /\ pc[2] = "emitted"
    /\ exempt_types[1] = {} /\ exempt_types[2] = {"u8"}
    /\ Len(Variants) = 2
    /\ Variants[1].fields.unnamed = <<"u8">>
    /\ Len(output[2]) = 3

\* C9: no partial emission. Every terminated expansion of an enum with a
\* malformed variant (anything but one positional field) has aborted and
\* returned nothing.
C9_MalformedAborts ==
    \A k \in Runs :
        (Terminal(k) /\ IsEnum /\ \E w \in VariantIdx : Malformed(Variants[w]))
        => (pc[k] = "aborted" /\ output[k] = <<>>)

\* The part of C9 that does not rest on which variants count as malformed: an
\* expansion returns its whole buffer or nothing.
NoPartialEmission ==
    \A k \in Runs :
        /\ pc[k] = "aborted" => (output[k] = <<>> /\ diag[k] # NoMsg)
        /\ pc[k] = "emitted" =>
              (diag[k] = NoMsg /\ Len(output[k]) = Len(Variants) + 1)
        /\ pc[k] \notin {"aborted", "emitted"} => output[k] = <<>>

\* C10 as stated: every malformed variant shape makes the macro abort with
\* one and the same diagnostic, so the diagnostic of an abort at a variant is
\* the one every malformed shape produces.
MalformedShapes == {f \in FieldShapes : ~(f.style = "Unnamed" /\ Len(f.unnamed) = 1)}
C10_SinglePayloadDiagnostic ==
    \A k \in Runs :
        (Terminal(k) /\ IsEnum /\ \E w \in VariantIdx : Malformed(Variants[w]))
        => (/\ pc[k] = "aborted"
            /\ \A f \in MalformedShapes :
                  inner_type_extractor([ident |-> Idents[1], fields |-> f]).msg = diag[k])

\* C10 amended: a unit variant or a variant with named fields aborts with the
\* "please only use unnamed enum variants" message, an empty positional list
\* with the different "should contain one inner value" message; the
\* diagnostic reported is that of the first such variant in declaration order.
Rejected(v) == NotUnnamed(v) \/ EmptyUnnamed(v)
FirstRejected == CHOOSE w \in VariantIdx :
                    Rejected(Variants[w]) /\ \A u \in 1..(w - 1) : ~Rejected(Variants[u])
C10_TwoPayloadDiagnostics ==
    \A k \in Runs :
        (Terminal(k) /\ IsEnum /\ \E w \in VariantIdx : Rejected(Variants[w]))
        => (/\ pc[k] = "aborted"
            /\ output[k] = <<>>
            /\ diag[k] = IF EmptyUnnamed(Variants[FirstRejected]) THEN FirstMsg ELSE UnnamedMsg
            /\ diag[k] # ShapeMsg
            /\ FirstMsg # UnnamedMsg)

C10_Witness ==
    /\ pc[1] = "aborted"
    /\ diag[1] = FirstMsg
    /\ Len(Variants) = 2
    /\ EmptyUnnamed(Variants[1])
    /\ NotUnnamed(Variants[2])

====
